---- MODULE Spec2Model ----
(***************************************************************************)
(* A model of src/app.py (YouTube -> MP3 Zipper).                          *)
(*                                                                         *)
(* Python strings are modelled as sequences of one-character strings, so   *)
(* that strip, splitlines, startswith, endswith and the regular-expression *)
(* substitutions are computed character by character.  A value the code    *)
(* holds as None or as "" (both falsy in Python) is the empty sequence;    *)
(* where the code tells the two apart (the info's id, which an f-string    *)
(* renders), a flag beside the field says which one it is.                 *)
(***************************************************************************)
EXTENDS Integers, Sequences, FiniteSets, TLC

VARIABLES
  \* ---- the file system
  disk,            \* path -> "file" | "link" | "dir" | "special"
  \* ---- parse_urls applied to one text (SpecParse)
  text,            \* the text handed to parse_urls
  urls,            \* what parse_urls returned
  parse_pc,        \* "input" | "parsed" | "off"
  \* ---- make_zip_bytes applied to one path list (SpecZip)
  file_paths,      \* the list handed to make_zip_bytes
  archive,         \* what it returned: [raised, entries]
  zip_pc,          \* "input" | "built" | "off"
  \* ---- cleanup_folder applied to one folder (SpecClean)
  folder,          \* the path handed to cleanup_folder
  before,          \* the file system when cleanup_folder was called
  stuck,           \* the paths whose removal failed during the call
  listed,          \* whether os.listdir(folder) succeeded during the call
  clean_pc,        \* "input" | "cleaned" | "off"
  \* ---- one browser session of the script (Spec)
  \* (the widgets' values are inputs of the script run that reads them)
  zip_state,       \* st.session_state["zip_state"]
  pc,              \* "idle" | "fetch"
  out_dir,         \* the run's ensure_writable_output_dir result
  urls_from_text,  \* the run's links parsed from the pasted text
  urls_from_file,  \* the run's links parsed from the upload
  playlist_urls,   \* the run's playlist links
  per_playlist_limit, \* the run's "Batas video per playlist" value
  url_to_group,    \* the run's mapping video link -> playlist title
  all_video_urls,  \* the run's merged link list
  results,         \* the run's outcome records
  ok_paths,        \* the run's successful paths
  grouped_paths,   \* the run's playlist title -> paths
  ungrouped_paths, \* the run's paths of links outside every playlist
  run_end,         \* how the latest run ended: "none" | "running" | "no_results" |
                   \* "results_ready" | "crashed" (a worker call raised) |
                   \* "no_folder" (ensure_writable_output_dir raised)
  offered,         \* keys of the download buttons the latest script run rendered
  runs,            \* runs started in this session
  fetches,         \* download_one calls made in this session
  calls,           \* the links the run handed to download_one, in call order
  tempdir          \* tempfile.tempdir: the answer of tempfile.gettempdir() the
                   \* process has cached, NO_TEMP (None) before the first answer

parseVars == <<text, urls, parse_pc>>
zipVars == <<file_paths, archive, zip_pc>>
cleanVars == <<folder, before, stuck, listed, clean_pc>>
runVars == <<out_dir, urls_from_text, urls_from_file, playlist_urls, per_playlist_limit,
             url_to_group, all_video_urls, results, ok_paths, grouped_paths,
             ungrouped_paths, calls>>
sessionVars == <<zip_state, pc, runVars, run_end, offered, runs, fetches, tempdir>>
vars == <<disk, parseVars, zipVars, cleanVars, sessionVars>>

(***************************************************************************)
(* Bounds                                                                  *)
(***************************************************************************)
MaxTextLen == 4
MaxRuns == 2
MaxFetches == 2
MaxLinks == 2
MaxStuck == 1
MaxPaths == 3
MaxEntries == 3

(***************************************************************************)
(* Strings                                                                 *)
(***************************************************************************)
\* Characters str.strip() removes and re's \s matches (those that occur in the model).
Whitespace == {" ", "\t", "\n", "\r"}

\* Line boundaries of str.splitlines() (those that occur in the model).
LineBreaks == {"\n", "\r"}

\* All sequences over S of length at most n.
SeqsUpTo(S, n) == UNION {[1..k -> S] : k \in 0..n}

IsPrefix(p, s) == Len(p) <= Len(s) /\ SubSeq(s, 1, Len(p)) = p

\* str.startswith
startswith(s, p) == IsPrefix(p, s)

\* str.endswith
endswith(s, suf) ==
  Len(suf) <= Len(s) /\ SubSeq(s, Len(s) - Len(suf) + 1, Len(s)) = suf

RECURSIVE lstrip(_, _)
lstrip(s, chars) ==
  IF s # <<>> /\ Head(s) \in chars THEN lstrip(Tail(s), chars) ELSE s

RECURSIVE rstrip(_, _)
rstrip(s, chars) ==
  IF s # <<>> /\ s[Len(s)] \in chars
  THEN rstrip(SubSeq(s, 1, Len(s) - 1), chars) ELSE s

\* str.strip(chars); str.strip() is strip(s, Whitespace)
strip(s, chars) == rstrip(lstrip(s, chars), chars)

\* s[:n]
Take(s, n) == SubSeq(s, 1, IF Len(s) < n THEN Len(s) ELSE n)

\* str.splitlines(): split at "\n", "\r" and "\r\n" (one boundary); no empty
\* last line after a final boundary.
RECURSIVE SplitFrom(_, _, _)
SplitFrom(s, cur, acc) ==
  IF s = <<>> THEN (IF cur = <<>> THEN acc ELSE Append(acc, cur))
  ELSE IF Head(s) = "\r" /\ Len(s) >= 2 /\ s[2] = "\n"
       THEN SplitFrom(Tail(Tail(s)), <<>>, Append(acc, cur))
  ELSE IF Head(s) \in LineBreaks
       THEN SplitFrom(Tail(s), <<>>, Append(acc, cur))
  ELSE SplitFrom(Tail(s), Append(cur, Head(s)), acc)

splitlines(s) == SplitFrom(s, <<>>, <<>>)

Range(f) == {f[i] : i \in DOMAIN f}

\* The seen/out loop: keep the first occurrence of each element.
RECURSIVE DedupFrom(_, _)
DedupFrom(xs, out) ==
  IF xs = <<>> THEN out
  ELSE IF Head(xs) \in Range(out) THEN DedupFrom(Tail(xs), out)
       ELSE DedupFrom(Tail(xs), Append(out, Head(xs)))

Dedup(xs) == DedupFrom(xs, <<>>)

(***************************************************************************)
(* Paths (posixpath)                                                       *)
(***************************************************************************)
SLASH == <<"/">>
DOT_MP3 == <<".", "m", "p", "3">>

\* Index of the last occurrence of character c in s, 0 when there is none.
RECURSIVE LastIndexOf(_, _)
LastIndexOf(s, c) ==
  IF s = <<>> THEN 0
  ELSE IF s[Len(s)] = c THEN Len(s)
       ELSE LastIndexOf(SubSeq(s, 1, Len(s) - 1), c)

\* os.path.join(a, b)
join(a, b) ==
  IF startswith(b, SLASH) THEN b
  ELSE IF a = <<>> \/ endswith(a, SLASH) THEN a \o b
       ELSE a \o SLASH \o b

\* os.path.basename(p)
basename(p) == SubSeq(p, LastIndexOf(p, "/") + 1, Len(p))

\* os.path.dirname(p), for the paths join() builds
dirname(p) ==
  LET k == LastIndexOf(p, "/")
  IN  IF k = 0 THEN <<>> ELSE IF k = 1 THEN SLASH ELSE SubSeq(p, 1, k - 1)

\* os.path.splitext(p)[0]: cut the extension, which starts at the last dot of the
\* base name unless that dot only leads the base name.
splitext_base(p) ==
  LET sep == LastIndexOf(p, "/")
      dot == LastIndexOf(p, ".")
      lead == {k \in (sep + 1)..Len(p) : \A m \in (sep + 1)..k : p[m] = "."}
  IN  IF dot > sep /\ dot \notin lead THEN SubSeq(p, 1, dot - 1) ELSE p

mp3_path_from_prepared(prepared_filename) == splitext_base(prepared_filename) \o DOT_MP3

(***************************************************************************)
(* Filename sanitizers                                                     *)
(***************************************************************************)
\* The characters human_filename removes: <>:"/\|?*
IllegalChars == {"<", ">", ":", "\"", "/", "\\", "|", "?", "*"}

RemoveChars(s, chars) == SelectSeq(s, LAMBDA c : c \notin chars)

\* re.sub(r"\s+", " ", s)
RECURSIVE CollapseWs(_)
CollapseWs(s) ==
  IF s = <<>> THEN <<>>
  ELSE IF Head(s) \in Whitespace
       THEN <<" ">> \o CollapseWs(lstrip(s, Whitespace))
       ELSE <<Head(s)>> \o CollapseWs(Tail(s))

UNTITLED == <<"u", "n", "t", "i", "t", "l", "e", "d">>
UNKNOWN_ARTIST == <<"U", "n", "k", "n", "o", "w", "n", " ", "A", "r", "t", "i", "s", "t">>
UNKNOWN_TITLE == <<"U", "n", "k", "n", "o", "w", "n", " ", "T", "i", "t", "l", "e">>

\* a or b, on strings
Or(a, b) == IF a # <<>> THEN a ELSE b

human_filename(t, maxlen) ==
  IF t = <<>> THEN UNTITLED
  ELSE LET cut == strip(CollapseWs(RemoveChars(t, IllegalChars)), {" ", ".", "-", "_"})
       IN  Take(Or(cut, UNTITLED), maxlen)

ArtistMaxLen == 80
TitleMaxLen == 120
TargetMaxLen == 180

\* compute_artist_title(info) = <<artist, title>>
compute_artist_title(info) ==
  LET artist == Or(info.artist, Or(info.uploader, Or(info.channel, UNKNOWN_ARTIST)))
      title == Or(info.track, Or(info.alt_title, Or(info.title, UNKNOWN_TITLE)))
  IN  <<human_filename(artist, ArtistMaxLen), human_filename(title, TitleMaxLen)>>

DASH == <<" ", "-", " ">>

\* target_base of download_one
target_base_of(info) ==
  LET at == compute_artist_title(info)
  IN  human_filename(at[1] \o DASH \o at[2], TargetMaxLen)

Digits == <<"0", "1", "2", "3", "4", "5", "6", "7", "8", "9">>

\* str(n) for n >= 0
RECURSIVE IntToStr(_)
IntToStr(n) ==
  IF n < 10 THEN <<Digits[n + 1]>>
  ELSE IntToStr(n \div 10) \o <<Digits[(n % 10) + 1]>>

(***************************************************************************)
(* The working directory: a function from path to the kind of what is there *)
(***************************************************************************)
EmptyDisk == [p \in {} |-> "file"]

exists(d, p) == p \in DOMAIN d

Put(d, p, kind) == [q \in (DOMAIN d) \cup {p} |-> IF q = p THEN kind ELSE d[q]]

Remove(d, ps) == [q \in (DOMAIN d) \ ps |-> d[q]]

\* os.replace(src, dst)
Replace(d, src, dst) == Put(Remove(d, {src}), dst, d[src])

\* os.path.isdir(p)
isdir(d, p) == exists(d, p) /\ d[p] = "dir"

\* os.makedirs(p, exist_ok=True), when it succeeds
makedirs(d, p) == IF exists(d, p) THEN d ELSE Put(d, p, "dir")

\* os.listdir(dir), as a set: the order of a listing is not specified
listdir(d, dir) == {basename(p) : p \in {q \in DOMAIN d : dirname(q) = dir}}

(***************************************************************************)
(* The extraction backend (YoutubeDL): what each link resolves to          *)
(***************************************************************************)
HTTP == <<"h", "t", "t", "p">>
Ua == HTTP \o <<"a">>
Ub == HTTP \o <<"b">>
Uc == HTTP \o <<"c">>
Ud == HTTP \o <<"d">>
\* f"https://www.youtube.com/watch?v={id}"
WATCH == <<"h", "t", "t", "p", "s", ":", "/", "/", "w", "w", "w", ".", "y", "o", "u", "t", "u", "b", "e", ".", "c", "o", "m", "/", "w", "a", "t", "c", "h", "?", "v", "=">>
Wy == WATCH \o <<"y">>

\* An info dict without any of the keys the code reads. id_none: the key "id"
\* is present and holds None (id is then the empty sequence).
NoInfo ==
  [id |-> <<>>, id_none |-> FALSE, title |-> <<>>, artist |-> <<>>, uploader |-> <<>>,
   channel |-> <<>>, track |-> <<>>, alt_title |-> <<>>, entries |-> <<>>]

\* Video a: id x, "T" by uploader "A".
InfoA == [NoInfo EXCEPT !.id = <<"x">>, !.title = <<"T">>, !.uploader = <<"A">>]
\* Video b: id y, "T?" by artist "A:" (the same "A - T" once sanitized).
InfoB == [NoInfo EXCEPT !.id = <<"y">>, !.title = <<"T", "?">>, !.artist = <<"A", ":">>,
                        !.uploader = <<"B">>]
\* Video c: a result without identifier or title, by channel "A", wrapped in a
\* one-entry collection.
InfoC == [NoInfo EXCEPT !.entries = << [NoInfo EXCEPT !.channel = <<"A">>] >>]
\* The same result with the entry's key "id" present, holding None.
InfoCNone ==
  [NoInfo EXCEPT !.entries = << [NoInfo EXCEPT !.channel = <<"A">>, !.id_none = TRUE] >>]
\* Video d: "T" by uploader "A" as well; its identifier "T" ends the name
\* "A - T.mp3".
InfoD == [NoInfo EXCEPT !.id = <<"T">>, !.title = <<"T">>, !.uploader = <<"A">>]

VideoUrls == {Ua, Ub, Uc, Ud, Wy}

Catalog(url) ==
  CASE url = Ua -> InfoA
    [] url = Ub -> InfoB
    [] url = Wy -> InfoB
    [] url = Uc -> InfoC
    [] url = Ud -> InfoD

\* The info dicts extract_info(url, download=True) may return for a link.
Extractions(url) ==
  IF url = Uc THEN {InfoC, InfoCNone} ELSE {Catalog(url)}

WEBM == <<".", "w", "e", "b", "m">>

\* The backend's placeholder for a field the info lacks
NA == <<"N", "A">>

\* ydl.prepare_filename(info) under outtmpl "%(title).180B - %(id)s.%(ext)s"
prepare_filename(output_dir, info) ==
  join(output_dir, Or(info.title, NA) \o DASH \o Or(info.id, NA) \o WEBM)

\* Where the backend may leave the converted file: at the prepared name, at a
\* name that differs from it before the identifier, or nowhere.
Landings(output_dir, info) ==
  { <<>>,
    mp3_path_from_prepared(prepare_filename(output_dir, info)),
    join(output_dir, <<"_">> \o DASH \o info.id \o DOT_MP3) }

(***************************************************************************)
(* download_one                                                            *)
(***************************************************************************)
NewRec(url) ==
  [url |-> url, title |-> <<>>, id |-> <<>>, status |-> "pending", path |-> <<>>,
   error |-> "", filesize_mb |-> "None"]

Failed(rec, msg) == [rec EXCEPT !.status = "failed", !.error = msg]

ERR_DOWNLOAD == "DownloadError: ..."
ERR_OTHER == "Error: ..."
ERR_FALLBACK == "Fallback extractor gagal: ..."
ERR_NO_METADATA == "Tidak dapat mengambil metadata (fallback juga gagal)."
ERR_NOT_FOUND == "File MP3 tidak ditemukan setelah konversi."

\* The first n >= from for which "<base> (n).mp3" is unused.
RECURSIVE FirstFree(_, _, _, _)
FirstFree(d, output_dir, target_base, n) ==
  IF ~exists(d, join(output_dir, target_base \o <<" ", "(">> \o IntToStr(n) \o <<")">> \o DOT_MP3))
  THEN n
  ELSE FirstFree(d, output_dir, target_base, n + 1)

Candidate(output_dir, target_base, n) ==
  join(output_dir, target_base \o <<" ", "(">> \o IntToStr(n) \o <<")">> \o DOT_MP3)

\* Lines 162-190: the produced file exists at mp3_path. The results, one per way
\* os.replace may end.
RenameAndTag(rec, d, output_dir, info, mp3_path) ==
  LET target_base == target_base_of(info)
      plain == join(output_dir, target_base \o DOT_MP3)
      target_path == IF exists(d, plain)
                     THEN Candidate(output_dir, target_base, FirstFree(d, output_dir, target_base, 1))
                     ELSE plain
      Ok(final_path, after) ==
        [raised |-> FALSE, disk |-> after,
         rec |-> [rec EXCEPT !.status = "ok", !.path = final_path, !.filesize_mb = "known"]]
  IN  IF mp3_path = plain
      THEN {Ok(mp3_path, d)}
      ELSE {Ok(target_path, Replace(d, mp3_path, target_path)),   \* renamed
            Ok(mp3_path, d)}                                      \* os.replace raised

\* str(None), as an f-string renders it
NONE_STR == <<"N", "o", "n", "e">>

\* f"{vid}" for vid = info.get("id", ""): the default applies to a missing key
\* only, a None under the key is rendered as "None".
vid_str(info) == IF info.id_none THEN NONE_STR ELSE info.id

\* Lines 149-192: the backend returned info, having left its file (or none) in
\* the directory.
AfterInfo(rec0, d, output_dir, info0) ==
  LET info == IF info0.entries # <<>> THEN info0.entries[1] ELSE info0
      rec == [rec0 EXCEPT !.title = info.title, !.id = info.id]
      expected == mp3_path_from_prepared(prepare_filename(output_dir, info))
      matches == {name \in listdir(d, output_dir) :
                    endswith(name, DOT_MP3) /\ endswith(name, vid_str(info) \o DOT_MP3)}
      NotFound == [raised |-> FALSE, disk |-> d, rec |-> Failed(rec, ERR_NOT_FOUND)]
  IN  IF exists(d, expected)
      THEN RenameAndTag(rec, d, output_dir, info, expected)
      ELSE \* os.listdir raised
           {[raised |-> FALSE, disk |-> d, rec |-> Failed(rec, ERR_OTHER)]}
           \cup
           (IF matches = {} THEN {NotFound}
            ELSE UNION {RenameAndTag(rec, d, output_dir, info, join(output_dir, name)) :
                          name \in matches})

\* Every way one call download_one(url, output_dir, ydl_opts) may end, given the
\* directory d: whether an exception left the function, the record returned and
\* the directory afterwards. can_make: os.makedirs(output_dir, exist_ok=True)
\* succeeds.
download_one(url, output_dir, d, can_make) ==
  LET rec0 == NewRec(url)
      made == makedirs(d, output_dir)
      Fail(msg) == [raised |-> FALSE, disk |-> made, rec |-> Failed(rec0, msg)]
      Extracted ==
        IF url \in VideoUrls
        THEN UNION {
               UNION {AfterInfo(rec0, IF land = <<>> THEN made ELSE Put(made, land, "file"),
                                output_dir, info) :
                        land \in Landings(output_dir,
                                          IF info.entries # <<>> THEN info.entries[1] ELSE info)} :
               info \in Extractions(url)}
        ELSE {}
  IN  IF ~can_make
      THEN {[raised |-> TRUE, disk |-> d, rec |-> rec0]}
      ELSE {Fail(ERR_DOWNLOAD), Fail(ERR_OTHER), Fail(ERR_FALLBACK), Fail(ERR_NO_METADATA)}
           \cup Extracted

(***************************************************************************)
(* make_zip_bytes                                                          *)
(***************************************************************************)
\* The entries zf.write(p, arcname=os.path.basename(p)) adds, in order: a
\* directory is written as an entry whose name ends in "/".
RECURSIVE ZipEntries(_, _)
ZipEntries(paths, d) ==
  IF paths = <<>> THEN <<>>
  ELSE LET p == Head(paths)
       IN  (IF p # <<>> /\ exists(d, p)
            THEN << basename(p) \o (IF d[p] = "dir" THEN SLASH ELSE <<>>) >>
            ELSE <<>>)
           \o ZipEntries(Tail(paths), d)

\* A plausible slip: the loop ends at the first path that is missing.
make_zip_bytes_StopAtMissing(paths, d, io_ok) ==
  LET gaps == {i \in 1..Len(paths) : ~exists(d, paths[i])}
      upto == IF gaps = {} THEN Len(paths)
              ELSE (CHOOSE i \in gaps : \A j \in gaps : i <= j) - 1
  IN  [raised |-> FALSE, entries |-> ZipEntries(SubSeq(paths, 1, upto), d)]

\* make_zip_bytes(file_paths) on the directory d. io_ok: every read of an
\* existing path succeeds; otherwise zf.write raises and no bytes are returned.
\* The bytes are modelled by the archive's sequence of entry names.
make_zip_bytes(paths, d, io_ok) ==
  IF ~io_ok /\ \E i \in 1..Len(paths) : paths[i] # <<>> /\ exists(d, paths[i])
  THEN [raised |-> TRUE, entries |-> <<>>]
  ELSE [raised |-> FALSE, entries |-> ZipEntries(paths, d)]

(***************************************************************************)
(* cleanup_folder                                                          *)
(***************************************************************************)
\* A plausible slip: no per-entry try, so the first failure ends the loop (here
\* before anything was removed).
cleanup_folder_NoPerEntryTry(dir, d, can_list, failing) ==
  IF ~isdir(d, dir) \/ ~can_list \/ failing # {} THEN d
  ELSE Remove(d, {p \in DOMAIN d : dirname(p) = dir /\ d[p] \in {"file", "link", "dir"}})

\* The file system after cleanup_folder(dir).
\* can_list: os.listdir(dir) succeeds; failing: the paths whose removal fails
\* (os.remove raises, shutil.rmtree gives up). An entry that is neither a file,
\* a link nor a directory is left alone.
cleanup_folder(dir, d, can_list, failing) ==
  IF ~isdir(d, dir) \/ ~can_list THEN d
  ELSE Remove(d, {p \in DOMAIN d :
                    /\ dirname(p) = dir
                    /\ d[p] \in {"file", "link", "dir"}
                    /\ p \notin failing})

(***************************************************************************)
(* slugify                                                                 *)
(***************************************************************************)
\* \w, for the characters that occur in the model
WordChars ==
  {"a", "b", "c", "d", "e", "f", "g", "h", "i", "j", "k", "l", "m", "n", "o", "p", "q",
   "r", "s", "t", "u", "v", "w", "x", "y", "z",
   "A", "B", "C", "D", "E", "F", "G", "H", "I", "J", "K", "L", "M", "N", "O", "P", "Q",
   "R", "S", "T", "U", "V", "W", "X", "Y", "Z",
   "0", "1", "2", "3", "4", "5", "6", "7", "8", "9", "_"}

\* re.sub(r"[\s_-]+", "_", s)
RECURSIVE CollapseSeparators(_)
CollapseSeparators(s) ==
  LET seps == Whitespace \cup {"_", "-"}
  IN  IF s = <<>> THEN <<>>
      ELSE IF Head(s) \in seps
           THEN <<"_">> \o CollapseSeparators(lstrip(s, seps))
           ELSE <<Head(s)>> \o CollapseSeparators(Tail(s))

SlugMaxLen == 80

slugify(name) ==
  LET kept == strip(SelectSeq(name, LAMBDA c : c \in WordChars \cup Whitespace \cup {"-"}),
                    Whitespace)
  IN  Or(strip(Take(CollapseSeparators(kept), SlugMaxLen), {"_"}), UNTITLED)

(***************************************************************************)
(* Ordered dictionaries: sequences of <<key, value>> with distinct keys     *)
(***************************************************************************)
DictKeys(dct) == [i \in 1..Len(dct) |-> dct[i][1]]

DictHas(dct, k) == \E i \in 1..Len(dct) : dct[i][1] = k

DictGet(dct, k) == dct[CHOOSE i \in 1..Len(dct) : dct[i][1] = k][2]

\* dct[k] = v: a new key goes last, a known key keeps its place.
DictSet(dct, k, v) ==
  IF DictHas(dct, k)
  THEN [i \in 1..Len(dct) |-> IF dct[i][1] = k THEN <<k, v>> ELSE dct[i]]
  ELSE Append(dct, <<k, v>>)

(***************************************************************************)
(* Playlist helpers                                                        *)
(***************************************************************************)
PLAYLIST == <<"P", "l", "a", "y", "l", "i", "s", "t">>
LAINNYA == <<"L", "a", "i", "n", "n", "y", "a">>

NoEntry == [is_dict |-> TRUE, url |-> <<>>, webpage_url |-> <<>>, id |-> <<>>]

\* What the backend reports for a playlist link in flat mode: "raise", "none",
\* or its title and entries.
PlaylistInfo(url) ==
  CASE url = <<"P">> ->
         [kind |-> "info", title |-> <<"P">>,
          entries |-> << [NoEntry EXCEPT !.url = Ua],
                         [NoEntry EXCEPT !.url = <<"c">>, !.webpage_url = Uc] >>]
    [] url = <<"L">> ->
         [kind |-> "info", title |-> LAINNYA,
          entries |-> << [NoEntry EXCEPT !.id = <<"y">>],
                         [NoEntry EXCEPT !.is_dict = FALSE] >>]
    [] url = <<"Q">> ->
         [kind |-> "info", title |-> <<>>,
          entries |-> << NoEntry, [NoEntry EXCEPT !.url = Ua] >>]
    [] url = <<"N">> -> [kind |-> "none", title |-> <<>>, entries |-> <<>>]
    [] OTHER -> [kind |-> "raise", title |-> <<>>, entries |-> <<>>]

\* The link one entry yields, <<>> when it yields none.
EntryUrl(e) ==
  IF ~e.is_dict THEN <<>>
  ELSE IF e.url # <<>> /\ startswith(e.url, HTTP) THEN e.url
  ELSE IF e.webpage_url # <<>> THEN e.webpage_url
  ELSE IF e.id # <<>> THEN WATCH \o e.id
  ELSE <<>>

\* expand_single_playlist(url, limit); limit 0 stands for None
expand_single_playlist(url, limit) ==
  LET info == PlaylistInfo(url)
      entries == IF limit # 0 THEN Take(info.entries, limit) ELSE info.entries
      found == SelectSeq([i \in 1..Len(entries) |-> EntryUrl(entries[i])],
                         LAMBDA u : u # <<>>)
  IN  IF info.kind = "raise" THEN [raised |-> TRUE, title |-> <<>>, urls |-> <<>>]
      ELSE IF info.kind = "none" THEN [raised |-> FALSE, title |-> PLAYLIST, urls |-> <<>>]
      ELSE [raised |-> FALSE, title |-> Or(info.title, PLAYLIST), urls |-> found]

\* A plausible slip: a later playlist overwrites an earlier playlist's claim.
RECURSIVE ClaimAll_LastWins(_, _, _)
ClaimAll_LastWins(mapping, vurls, ptitle) ==
  IF vurls = <<>> THEN mapping
  ELSE ClaimAll_LastWins(DictSet(mapping, Head(vurls), ptitle), Tail(vurls), ptitle)

\* The inner loop of expand_playlists: insert-if-absent.
RECURSIVE ClaimAll(_, _, _)
ClaimAll(mapping, vurls, ptitle) ==
  IF vurls = <<>> THEN mapping
  ELSE ClaimAll(IF DictHas(mapping, Head(vurls)) THEN mapping
                ELSE DictSet(mapping, Head(vurls), ptitle),
                Tail(vurls), ptitle)

\* expand_playlists(pl_urls, per_playlist_limit)[0], the mapping video -> group
RECURSIVE ExpandFrom(_, _, _)
ExpandFrom(pl_urls, limit, mapping) ==
  IF pl_urls = <<>> THEN mapping
  ELSE LET r == expand_single_playlist(Head(pl_urls), limit)
       IN  ExpandFrom(Tail(pl_urls), limit,
                      IF r.raised THEN mapping
                      ELSE ClaimAll(mapping, r.urls, r.title))

expand_playlists(pl_urls, limit) == ExpandFrom(pl_urls, limit, <<>>)

(***************************************************************************)
(* parse_urls                                                              *)
(***************************************************************************)
\* A plausible slip: the comment test is made on the untrimmed line.
parse_urls_UntrimmedTest(t) ==
  LET raw == splitlines(t)
      kept == SelectSeq(raw, LAMBDA ln : strip(ln, Whitespace) # <<>> /\ ~startswith(ln, <<"#">>))
  IN  Dedup([i \in 1..Len(kept) |-> strip(kept[i], Whitespace)])

parse_urls(t) ==
  LET raw == splitlines(t)
      lines == [i \in 1..Len(raw) |-> strip(raw[i], Whitespace)]
      kept == SelectSeq(lines, LAMBDA ln : ln # <<>> /\ ~startswith(ln, <<"#">>))
  IN  Dedup(kept)

(***************************************************************************)
(* SpecParse: parse_urls applied to every text over a small alphabet       *)
(***************************************************************************)
TextAlphabet == {"a", "b", "#", " ", "\n", "\r"}

\* The example of the specification, with links shortened to one letter
\* ("a\n# b\n\nb\na").
ExampleText == <<"a", "\n", "#", " ", "b", "\n", "\n", "b", "\n", "a">>

Texts == SeqsUpTo(TextAlphabet, MaxTextLen) \cup {ExampleText}

(***************************************************************************)
(* The script: widgets, session state and one run                          *)
(***************************************************************************)
NL == <<"\n">>

MODE_COMBINED == "Gabungkan semua (1 ZIP)"
MODE_PER_PLAYLIST == "Satu ZIP per playlist"

\* What the user may have pasted as video links: nothing; one link; two links
\* with a comment line and a repeated link.
TextInputs == { <<>>, Ua, Ua \o NL \o <<"#", "c">> \o NL \o Ub \o NL \o Ua }

NoUpload == [present |-> FALSE, readable |-> FALSE, content |-> <<>>]

\* The upload: none; a file naming one link; a file whose read raises.
FileUps ==
  { NoUpload,
    [present |-> TRUE, readable |-> TRUE, content |-> Ud \o NL],
    [present |-> TRUE, readable |-> FALSE, content |-> <<>>] }

\* What the user may have pasted as playlist links.
PlaylistTexts ==
  { <<>>, <<"P">>, <<"L">> \o NL \o <<"R">>, <<"Q">> \o NL \o <<"N">> \o NL \o <<"P">> }

Limits == {0, 1}

\* The widget value of "Folder sementara output MP3".
OUTPUT_DIR == <<"o">>
\* What tempfile.gettempdir() may answer: the first usable one of the folder
\* the environment names (TMPDIR, TEMP or TMP), the system's temp folders,
\* and the working directory.
ENV_TMP == <<"/", "e">>
TEMP_DIR == <<"/", "t", "m", "p">>
VAR_TMP == <<"/", "v", "a", "r", "/", "t", "m", "p">>
USR_TMP == <<"/", "u", "s", "r", "/", "t", "m", "p">>
CWD == <<"/", "w">>
TempDirs == {ENV_TMP, TEMP_DIR, VAR_TMP, USR_TMP, CWD}
\* No folder is usable: tempfile.gettempdir() raises FileNotFoundError.
NO_TEMP == <<>>
\* What one call of tempfile.gettempdir() may answer when the process has
\* cached the answer `cached`: an answer is found once and then kept, a raise
\* is not kept.
gettempdir(cached) == IF cached # NO_TEMP THEN {cached} ELSE TempDirs \cup {NO_TEMP}
OUT_MP3 == <<"o", "u", "t", "_", "m", "p", "3">>

WRITE_TEST == <<".", "w", "r", "i", "t", "e", "_", "t", "e", "s", "t">>

\* What the file system may do to ensure_writable_output_dir. primary says how
\* far lines 74-78 get: "ok" (all succeed), "mkdir" (os.makedirs raises),
\* "open" (the folder is made, the test file cannot be created) or "write" (the
\* test file is created, then writing or removing it raises). temp is what
\* tempfile.gettempdir() answers at line 81 (NO_TEMP: it raises) and fallback
\* says whether os.makedirs of the folder under it succeeds; neither is
\* consulted when primary is "ok".
FsEnvs(cached) ==
  { [primary |-> "ok", temp |-> cached, fallback |-> TRUE] }
  \cup { e \in [primary : {"mkdir", "open", "write"}, temp : gettempdir(cached),
                fallback : BOOLEAN] :
           e.temp = NO_TEMP => ~e.fallback }

\* ensure_writable_output_dir(path) on the file system d: whether an exception
\* left the function (tempfile.gettempdir() at line 81 is outside the inner
\* try), the folder the run uses, whether a note is shown, whether that folder
\* exists or can be made (the failure to make the fallback is swallowed), and
\* the file system afterwards.
ensure_writable_output_dir(path, d, env) ==
  LET testfile == join(path, WRITE_TEST)
      made == makedirs(d, path)
      tried == CASE env.primary = "mkdir" -> d
                 [] env.primary = "open" -> made
                 [] env.primary = "write" -> Put(made, testfile, "file")
                 [] OTHER -> Remove(made, {testfile})
      fallback == join(env.temp, OUT_MP3)
  IN  IF env.primary = "ok"
      THEN [raised |-> FALSE, path |-> path, note |-> FALSE, usable |-> TRUE,
            disk |-> tried]
      ELSE IF env.temp = NO_TEMP
      THEN [raised |-> TRUE, path |-> <<>>, note |-> FALSE, usable |-> FALSE,
            disk |-> tried]
      ELSE [raised |-> FALSE, path |-> fallback, note |-> TRUE, usable |-> env.fallback,
            disk |-> IF env.fallback THEN makedirs(tried, fallback) ELSE tried]

\* Lines 315-321
FileUrls(file_up) ==
  IF file_up.present /\ file_up.readable THEN parse_urls(file_up.content) ELSE <<>>

\* Lines 329-337: url_to_group as a script run computes it
Expanded(playlist_text, lim) ==
  LET pl_urls == parse_urls(playlist_text)
  IN  IF pl_urls # <<>> THEN expand_playlists(pl_urls, lim)
      ELSE <<>>

\* Lines 339-344: the merge of the three sources
Merged(from_text, from_file, mapping) == Dedup(from_text \o from_file \o DictKeys(mapping))

\* What lines 314-344 compute from the widgets' values, for every combination
\* of values the model draws.
ScriptInputs ==
  { [from_text |-> parse_urls(text_input),
     from_file |-> FileUrls(file_up),
     playlists |-> parse_urls(playlist_text),
     limit |-> lim,
     mapping |-> Expanded(playlist_text, lim),
     merged |-> Merged(parse_urls(text_input), FileUrls(file_up),
                       Expanded(playlist_text, lim))] :
      text_input \in TextInputs, file_up \in FileUps,
      playlist_text \in PlaylistTexts, lim \in Limits }

\* The "zip_state" entry of the session state. present = FALSE: no entry.
NoZipState ==
  [present |-> FALSE, mode |-> "", output_dir |-> <<>>, cleaned |-> FALSE,
   has_combined |-> FALSE, combined_bytes |-> <<>>, combined_name |-> <<>>,
   has_group_zips |-> FALSE, group_zips |-> <<>>]

ZIP_NAME_INPUT == <<"z">>
DOT_ZIP == <<".", "z", "i", "p">>
\* datetime.now().strftime(...): the time is not modelled
TS_NOW == <<"t", "s">>

\* Lines 444-464: the per-playlist bundles. failing: the titles whose
\* make_zip_bytes call raises; others_fail: the call for 'Lainnya' raises.
RECURSIVE GroupZips(_, _, _, _)
GroupZips(grouped, d, failing, acc) ==
  IF grouped = <<>> THEN acc
  ELSE LET group_title == Head(grouped)[1]
           paths == Head(grouped)[2]
           z == make_zip_bytes(paths, d, group_title \notin failing)
           fname == <<"p", "l", "a", "y", "l", "i", "s", "t", "_">> \o slugify(group_title)
                      \o <<"_">> \o TS_NOW \o DOT_ZIP
       IN  GroupZips(Tail(grouped), d, failing,
                     IF paths = <<>> \/ z.raised THEN acc
                     ELSE DictSet(acc, group_title, [bytes |-> z.entries, name |-> fname]))

PerPlaylistZips(grouped, ungrouped, d, failing, others_fail) ==
  LET group_zips == GroupZips(grouped, d, failing, <<>>)
      z == make_zip_bytes(ungrouped, d, ~others_fail)
  IN  IF ungrouped # <<>> /\ ~z.raised
      THEN DictSet(group_zips, LAINNYA,
                   [bytes |-> z.entries, name |-> LAINNYA \o <<"_">> \o TS_NOW \o DOT_ZIP])
      ELSE group_zips

\* Lines 420-472: the session's zip_state after a run with successes.
\* combined_ok: make_zip_bytes(ok_paths) does not raise.
BuildZipState(zip_mode, d, combined_ok, failing, others_fail) ==
  LET mode == IF zip_mode = MODE_COMBINED THEN "gabungan" ELSE "per_playlist"
      base == [NoZipState EXCEPT !.present = TRUE, !.mode = mode,
                                 !.output_dir = out_dir.path]
      z == make_zip_bytes(ok_paths, d, combined_ok)
      group_zips == PerPlaylistZips(grouped_paths, ungrouped_paths, d, failing, others_fail)
  IN  IF mode = "gabungan"
      THEN IF z.raised THEN NoZipState
           ELSE [base EXCEPT !.has_combined = TRUE, !.combined_bytes = z.entries,
                             !.combined_name =
                               IF endswith(ZIP_NAME_INPUT, DOT_ZIP) THEN ZIP_NAME_INPUT
                               ELSE ZIP_NAME_INPUT \o DOT_ZIP]
      ELSE IF group_zips = <<>> THEN base
           ELSE [base EXCEPT !.has_group_zips = TRUE, !.group_zips = group_zips]

DL_COMBINED == <<"d", "l", "_", "c", "o", "m", "b", "i", "n", "e", "d">>

\* Lines 474-506: the keys of the download buttons a script run renders.
Buttons(zs) ==
  IF zs.present /\ ~zs.cleaned
  THEN IF zs.mode = "gabungan" /\ zs.has_combined THEN {DL_COMBINED}
       ELSE IF zs.mode = "per_playlist" /\ zs.has_group_zips
            THEN {<<"d", "l", "_">> \o slugify(zs.group_zips[i][1]) :
                    i \in 1..Len(zs.group_zips)}
            ELSE {}
  ELSE {}

(***************************************************************************)
(* Spec: one browser session                                               *)
(***************************************************************************)
ParseOff == text = <<>> /\ urls = <<>> /\ parse_pc = "off"
ZipOff == file_paths = <<>> /\ archive = [raised |-> FALSE, entries |-> <<>>] /\ zip_pc = "off"
CleanOff ==
  /\ folder = <<>> /\ before = EmptyDisk
  /\ stuck = {} /\ listed = FALSE /\ clean_pc = "off"

NoDir == [path |-> <<>>, note |-> FALSE, usable |-> FALSE]

NoRunLocals ==
  /\ out_dir = NoDir /\ urls_from_text = <<>> /\ urls_from_file = <<>>
  /\ playlist_urls = <<>> /\ per_playlist_limit = 0
  /\ url_to_group = <<>> /\ all_video_urls = <<>> /\ results = <<>>
  /\ ok_paths = <<>> /\ grouped_paths = <<>> /\ ungrouped_paths = <<>> /\ calls = <<>>

RunIdle ==
  /\ out_dir = NoDir /\ urls_from_text = <<>> /\ urls_from_file = <<>>
  /\ playlist_urls = <<>> /\ per_playlist_limit = 0
  /\ url_to_group = <<>> /\ all_video_urls = <<>> /\ results = <<>>
  /\ ok_paths = <<>> /\ grouped_paths = <<>> /\ ungrouped_paths = <<>> /\ calls = <<>>
  /\ run_end = "none" /\ offered = {} /\ runs = 0 /\ fetches = 0
  /\ tempdir = NO_TEMP

SessionOff == zip_state = NoZipState /\ pc = "off" /\ RunIdle

\* A file an earlier session left under the name the first target would take.
StaleFile == join(OUTPUT_DIR, <<"A", " ", "-", " ", "T">> \o DOT_MP3)
StaleDisk == Put(Put(EmptyDisk, OUTPUT_DIR, "dir"), StaleFile, "file")

Init ==
  /\ ParseOff /\ ZipOff /\ CleanOff
  /\ disk \in {EmptyDisk, StaleDisk}
  /\ zip_state = NoZipState
  /\ pc = "idle"
  /\ RunIdle

\* The user presses "Mulai Download & Buat ZIP" (enabled when there is a link):
\* lines 314-382 of that script run, on the widgets' values at that time.
\* fs_env says what the file system lets ensure_writable_output_dir do (line 363).
Start ==
  /\ pc = "idle"
  /\ runs < MaxRuns
  /\ \E in \in ScriptInputs, fs_env \in FsEnvs(tempdir) :
       /\ in.merged # <<>>
       /\ Len(in.merged) <= MaxLinks
       /\ fetches + Len(in.merged) <= MaxFetches
       /\ urls_from_text' = in.from_text
       /\ urls_from_file' = in.from_file
       /\ playlist_urls' = in.playlists
       /\ per_playlist_limit' = in.limit
       /\ url_to_group' = in.mapping
       /\ all_video_urls' = in.merged
       /\ LET r == ensure_writable_output_dir(OUTPUT_DIR, disk, fs_env)
          IN  /\ out_dir' = [path |-> r.path, note |-> r.note, usable |-> r.usable]
              /\ disk' = r.disk
              /\ tempdir' = fs_env.temp
              /\ IF r.raised
                 THEN \* the exception ends the script run at line 363: no worker
                      \* call, no download section
                      pc' = "idle" /\ run_end' = "no_folder"
                 ELSE pc' = "fetch" /\ run_end' = "running"
  /\ runs' = runs + 1
  /\ results' = <<>> /\ ok_paths' = <<>> /\ grouped_paths' = <<>>
  /\ ungrouped_paths' = <<>> /\ calls' = <<>>
  /\ offered' = {}
  /\ UNCHANGED <<parseVars, zipVars, cleanVars, zip_state, fetches>>

\* One iteration of the fetch loop, lines 384-406.
Fetch ==
  /\ pc = "fetch"
  /\ Len(results) < Len(all_video_urls)
  /\ LET url == all_video_urls[Len(results) + 1]
     IN  \E o \in download_one(url, out_dir.path, disk, out_dir.usable) :
           /\ calls' = Append(calls, url)
           /\ fetches' = fetches + 1
           /\ disk' = o.disk
           /\ IF o.raised
              THEN \* the exception ends the script run
                   /\ pc' = "idle"
                   /\ run_end' = "crashed"
                   /\ UNCHANGED <<results, ok_paths, grouped_paths, ungrouped_paths>>
              ELSE /\ results' = Append(results, o.rec)
                   /\ UNCHANGED <<pc, run_end>>
                   /\ IF o.rec.status = "ok" /\ o.rec.path # <<>>
                      THEN /\ ok_paths' = Append(ok_paths, o.rec.path)
                           /\ IF DictHas(url_to_group, url) /\ DictGet(url_to_group, url) # <<>>
                              THEN /\ grouped_paths' =
                                        LET group == DictGet(url_to_group, url)
                                            sofar == IF DictHas(grouped_paths, group)
                                                     THEN DictGet(grouped_paths, group)
                                                     ELSE <<>>
                                        IN  DictSet(grouped_paths, group,
                                                    Append(sofar, o.rec.path))
                                   /\ UNCHANGED ungrouped_paths
                              ELSE /\ ungrouped_paths' = Append(ungrouped_paths, o.rec.path)
                                   /\ UNCHANGED grouped_paths
                      ELSE UNCHANGED <<ok_paths, grouped_paths, ungrouped_paths>>
  /\ UNCHANGED <<parseVars, zipVars, cleanVars, zip_state, out_dir, urls_from_text,
                 urls_from_file, playlist_urls, per_playlist_limit, url_to_group,
                 all_video_urls, offered, runs, tempdir>>

\* The loop is over and nothing succeeded: lines 408-418, then 474-476.
FinishNoResults ==
  /\ pc = "fetch"
  /\ Len(results) = Len(all_video_urls)
  /\ ok_paths = <<>>
  /\ zip_state' = NoZipState
  /\ offered' = {}
  /\ pc' = "idle"
  /\ run_end' = "no_results"
  /\ UNCHANGED <<disk, parseVars, zipVars, cleanVars, runVars, runs, fetches, tempdir>>

\* The loop is over with successes: lines 419-472, then the download section
\* 474-506 of the same script run (no download button was pressed in it).
\* zip_mode is the radio's value; the other inputs say which make_zip_bytes
\* calls raise.
FinishResults ==
  /\ pc = "fetch"
  /\ Len(results) = Len(all_video_urls)
  /\ ok_paths # <<>>
  /\ \E zip_mode \in {MODE_COMBINED, MODE_PER_PLAYLIST} :
       \E combined_ok \in (IF zip_mode = MODE_COMBINED THEN BOOLEAN ELSE {TRUE}),
          others_fail \in (IF zip_mode = MODE_COMBINED \/ ungrouped_paths = <<>>
                           THEN {FALSE} ELSE BOOLEAN),
          failing \in (IF zip_mode = MODE_COMBINED THEN {{}}
                       ELSE SUBSET Range(DictKeys(grouped_paths))) :
         LET built == BuildZipState(zip_mode, disk, combined_ok, failing, others_fail)
         IN  \* a failed combined build also drops the stored state (line 442)
             /\ zip_state' = built
             /\ offered' = Buttons(built)
  /\ pc' = "idle"
  /\ run_end' = "results_ready"
  /\ UNCHANGED <<disk, parseVars, zipVars, cleanVars, runVars, runs, fetches, tempdir>>

\* Any other interaction reruns the script without the start button: only the
\* download section 474-506 acts, and the earlier run's local values are gone.
\* click: the key of the button pressed, <<>> when the rerun has another cause.
\* can_list and failing say where the file system fails cleanup_folder.
Rerun ==
  /\ pc = "idle"
  /\ \E click \in offered \cup {<<>>} :
       LET buttons == Buttons(zip_state)
           dir == IF zip_state.output_dir # <<>> THEN zip_state.output_dir ELSE OUT_MP3
       IN  /\ offered' = buttons
           /\ IF click \in buttons
              THEN /\ \E can_list \in BOOLEAN,
                         failing \in {S \in SUBSET DOMAIN disk : Cardinality(S) <= MaxStuck} :
                        disk' = cleanup_folder(dir, disk, can_list, failing)
                   /\ zip_state' = [zip_state EXCEPT !.cleaned = TRUE]
              ELSE UNCHANGED <<disk, zip_state>>
  /\ out_dir' = NoDir /\ urls_from_text' = <<>> /\ urls_from_file' = <<>>
  /\ playlist_urls' = <<>> /\ per_playlist_limit' = 0
  /\ url_to_group' = <<>> /\ all_video_urls' = <<>> /\ results' = <<>>
  /\ ok_paths' = <<>> /\ grouped_paths' = <<>> /\ ungrouped_paths' = <<>> /\ calls' = <<>>
  /\ UNCHANGED <<parseVars, zipVars, cleanVars, pc, run_end, runs, fetches, tempdir>>

Next == Start \/ Fetch \/ FinishNoResults \/ FinishResults \/ Rerun

Spec == Init /\ [][Next]_vars

(***************************************************************************)
(* SpecParse                                                               *)
(***************************************************************************)
InitParse ==
  /\ text \in Texts
  /\ urls = <<>>
  /\ parse_pc = "input"
  /\ disk = EmptyDisk /\ ZipOff /\ CleanOff /\ SessionOff

Parse ==
  /\ parse_pc = "input"
  /\ urls' = parse_urls(text)
  /\ parse_pc' = "parsed"
  /\ UNCHANGED <<text, disk, zipVars, cleanVars, sessionVars>>

NextParse == Parse

SpecParse == InitParse /\ [][NextParse]_vars

(***************************************************************************)
(* SpecZip: make_zip_bytes applied to every short path list                *)
(***************************************************************************)
\* Two folders holding the same base name, and the empty path.
ZipPaths == { <<"o", "/", "a">>, <<"o", "/", "b">>, <<"p", "/", "a">> }

InitZip ==
  /\ disk \in UNION {[ps -> {"file", "dir"}] : ps \in SUBSET ZipPaths}
  /\ file_paths \in SeqsUpTo(ZipPaths \cup {<<>>}, MaxPaths)
  /\ archive = [raised |-> FALSE, entries |-> <<>>]
  /\ zip_pc = "input"
  /\ ParseOff /\ CleanOff /\ SessionOff

\* io_ok: no read of an existing path fails.
BuildZip ==
  /\ zip_pc = "input"
  /\ \E io_ok \in BOOLEAN : archive' = make_zip_bytes(file_paths, disk, io_ok)
  /\ zip_pc' = "built"
  /\ UNCHANGED <<file_paths, disk, parseVars, cleanVars, sessionVars>>

NextZip == BuildZip

SpecZip == InitZip /\ [][NextZip]_vars

(***************************************************************************)
(* SpecClean: cleanup_folder applied to every small folder                 *)
(***************************************************************************)
CleanFolder == <<"o">>
CleanNames == { <<"a">>, <<"b">>, <<"c">>, <<"d">> }
Outside == <<"p", "/", "a">>

\* What may be at the folder's path: nothing, a file, or a directory holding up
\* to MaxEntries entries of any kind; a file outside the folder in every case.
CleanDisks ==
  LET outside == Put(EmptyDisk, Outside, "file")
      Children(ns, kinds) == [p \in {join(CleanFolder, n) : n \in ns} |->
                                kinds[basename(p)]]
  IN  { outside, Put(outside, CleanFolder, "file") }
      \cup
      { Put(outside, CleanFolder, "dir") @@ Children(ns, kinds) :
          <<ns, kinds>> \in
            { nk \in (SUBSET CleanNames) \X [CleanNames -> {"file", "link", "dir", "special"}] :
                /\ Cardinality(nk[1]) <= MaxEntries
                /\ \A n \in CleanNames \ nk[1] : nk[2][n] = "file" } }

InitClean ==
  /\ folder = CleanFolder
  /\ disk \in CleanDisks
  /\ before = EmptyDisk /\ stuck = {} /\ listed = FALSE
  /\ clean_pc = "input"
  /\ ParseOff /\ ZipOff /\ SessionOff

\* can_list: os.listdir succeeds; failing: the entries whose removal fails.
Cleanup ==
  /\ clean_pc = "input"
  /\ \E can_list \in BOOLEAN,
        failing \in SUBSET {p \in DOMAIN disk : dirname(p) = folder} :
       /\ disk' = cleanup_folder(folder, disk, can_list, failing)
       /\ stuck' = failing
       /\ listed' = can_list
  /\ before' = disk
  /\ clean_pc' = "cleaned"
  /\ UNCHANGED <<folder, parseVars, zipVars, sessionVars>>

NextClean == Cleanup

SpecClean == InitClean /\ [][NextClean]_vars

(***************************************************************************)
(* C7                                                                      *)
(***************************************************************************)
\* t[i..j] is a non-empty line of t: a maximal run without a line boundary.
IsLine(t, i, j) ==
  /\ 1 <= i /\ i <= j /\ j <= Len(t)
  /\ \A k \in i..j : t[k] \notin LineBreaks
  /\ (i = 1 \/ t[i - 1] \in LineBreaks)
  /\ (j = Len(t) \/ t[j + 1] \in LineBreaks)

\* t[a..b] is what is left of the line t[i..j] once its surrounding whitespace is cut.
IsTrimOf(t, a, b, i, j) ==
  /\ i <= a /\ a <= b /\ b <= j
  /\ t[a] \notin Whitespace /\ t[b] \notin Whitespace
  /\ \A k \in (i..(a - 1)) \cup ((b + 1)..j) : t[k] \in Whitespace

\* <<a, u>>: the trimmed line u starts at position a of t, is not empty and does
\* not start with '#'.
KeptLines(t) ==
  {<<a, SubSeq(t, a, b)>> : <<a, b>> \in
     {ab \in (1..Len(t)) \X (1..Len(t)) :
        /\ t[ab[1]] # "#"
        /\ \E i \in 1..Len(t), j \in 1..Len(t) :
              IsLine(t, i, j) /\ IsTrimOf(t, ab[1], ab[2], i, j)}}

FirstAt(t, u) ==
  CHOOSE a \in 1..Len(t) :
    /\ <<a, u>> \in KeptLines(t)
    /\ \A c \in 1..Len(t) : <<c, u>> \in KeptLines(t) => a <= c

\* C7: parse_urls returns exactly the trimmed lines that are non-empty and do not
\* start with '#', each distinct string once, in order of first occurrence; the
\* specification's example gives its two links.
C7_ParseUrls ==
  parse_pc = "parsed" =>
    /\ Range(urls) = {au[2] : au \in KeptLines(text)}
    /\ \A i, j \in 1..Len(urls) : i < j =>
          /\ urls[i] # urls[j]
          /\ FirstAt(text, urls[i]) < FirstAt(text, urls[j])
    /\ (text = ExampleText => urls = << <<"a">>, <<"b">> >>)

\* The example has been parsed: a comment line, a blank line and a repeated link
\* were dropped.
C7_Witness ==
  /\ parse_pc = "parsed"
  /\ text = ExampleText
  /\ urls = << <<"a">>, <<"b">> >>

(***************************************************************************)
(* C8                                                                      *)
(***************************************************************************)
\* The indices of the input paths that exist, and the k-th of them.
Present == {i \in 1..Len(file_paths) : exists(disk, file_paths[i])}
KthPresent(k) == CHOOSE i \in Present : Cardinality({j \in Present : j < i}) = k - 1

\* The entry names are the base names of exactly the existing input paths, in
\* input order.
BaseNamesOfPresent ==
  /\ Len(archive.entries) = Cardinality(Present)
  /\ \A k \in 1..Cardinality(Present) :
        archive.entries[k] = basename(file_paths[KthPresent(k)])

\* C8 (as stated): for every input path list, the archive make_zip_bytes returns
\* has as entry names the base names of exactly the input paths that exist, in
\* input order; a missing path is omitted without error.
C8_EveryPathList ==
  (zip_pc = "built" /\ ~archive.raised) => BaseNamesOfPresent

\* C8 (amended): the same, for every input path list whose existing paths are
\* regular files.
C8_RegularFiles ==
  (zip_pc = "built" /\ ~archive.raised /\ \A i \in Present : disk[file_paths[i]] = "file")
    => BaseNamesOfPresent

\* An archive was built from a list naming a missing path between two existing
\* files of different folders: two entries, by base name.
C8_Witness ==
  /\ zip_pc = "built" /\ ~archive.raised
  /\ Len(file_paths) = 3
  /\ Present = {1, 3}
  /\ disk[file_paths[1]] = "file" /\ disk[file_paths[3]] = "file"
  /\ dirname(file_paths[1]) # dirname(file_paths[3])
  /\ archive.entries = << basename(file_paths[1]), basename(file_paths[3]) >>

(***************************************************************************)
(* C9                                                                      *)
(***************************************************************************)
ChildrenOf(d, dir) == {p \in DOMAIN d : dirname(p) = dir}

\* Everything outside the folder, and the folder itself, is as it was.
OutsideUntouched ==
  \A p \in (DOMAIN before \cup DOMAIN disk) \ ChildrenOf(before, folder) :
     p \in DOMAIN before /\ p \in DOMAIN disk /\ disk[p] = before[p]

OnlyFilesLinksDirs ==
  \A p \in ChildrenOf(before, folder) : before[p] \in {"file", "link", "dir"}

\* The directory is still there and holds exactly the entries whose own removal
\* failed.
OnlyStuckRemain ==
  /\ isdir(disk, folder)
  /\ ChildrenOf(disk, folder) = stuck
  /\ \A p \in stuck : disk[p] = before[p]

\* C9 (as stated): after cleanup_folder on an existing directory of files,
\* links and subdirectories, the directory still exists and holds no entry other
\* than those whose own removal failed, a failure never keeping another entry
\* from being removed; on a path that is not an existing directory nothing
\* changes.
C9_Cleanup ==
  clean_pc = "cleaned" =>
    /\ OutsideUntouched
    /\ (isdir(before, folder) /\ OnlyFilesLinksDirs) => OnlyStuckRemain
    /\ ~isdir(before, folder) => disk = before

\* C9 (amended): the same when the directory could be listed; when the listing
\* fails nothing is changed.
C9_CleanupListed ==
  clean_pc = "cleaned" =>
    /\ OutsideUntouched
    /\ (isdir(before, folder) /\ OnlyFilesLinksDirs /\ listed) => OnlyStuckRemain
    /\ (~isdir(before, folder) \/ ~listed) => disk = before

\* A directory of a file, a link and a subdirectory was cleaned while one
\* removal failed: that entry alone is left.
C9_Witness ==
  /\ clean_pc = "cleaned" /\ listed
  /\ isdir(before, folder)
  /\ {before[p] : p \in ChildrenOf(before, folder)} = {"file", "link", "dir"}
  /\ Cardinality(stuck) = 1
  /\ ChildrenOf(disk, folder) = stuck

(***************************************************************************)
(* The run's local values                                                  *)
(***************************************************************************)
\* A run's local values are in scope: the run is under way, or it ended and no
\* other script run has happened since.
InRun == all_video_urls # <<>>
RunOver == pc = "idle" /\ InRun

IsOk(rec) == rec.status = "ok"

(***************************************************************************)
(* C10                                                                     *)
(***************************************************************************)
WellFormed(rec) ==
  /\ rec.status \in {"ok", "failed"}
  /\ (rec.path # <<>>) <=> (rec.status = "ok")
  /\ (rec.error # "") <=> (rec.status = "failed")

\* C10: every outcome record has status ok or failed, a file path exactly when
\* ok and an error message exactly when failed, and no exception escapes the
\* worker (a run never ends by a worker call raising; a run that ends in
\* ensure_writable_output_dir, before any worker call, is not such an end).
C10_OutcomeRecords ==
  /\ \A i \in 1..Len(results) : WellFormed(results[i])
  /\ run_end # "crashed"

(***************************************************************************)
(* C1                                                                      *)
(***************************************************************************)
\* The links of the three sources, in the order the merge reads them.
Sources == urls_from_text \o urls_from_file \o DictKeys(url_to_group)

FirstIndex(seq, u) ==
  CHOOSE i \in 1..Len(seq) : seq[i] = u /\ \A j \in 1..(i - 1) : seq[j] # u

\* C1: by the end of a run the worker was invoked exactly once for each distinct
\* link of the merged list, in first-seen order, whatever failed.
C1_OncePerLink ==
  RunOver =>
    /\ Range(calls) \subseteq Range(Sources)
    /\ \A u \in Range(Sources) : Cardinality({i \in 1..Len(calls) : calls[i] = u}) = 1
    /\ \A i, j \in 1..Len(calls) :
          i < j => FirstIndex(Sources, calls[i]) < FirstIndex(Sources, calls[j])

(***************************************************************************)
(* C2                                                                      *)
(***************************************************************************)
\* What the i-th playlist link of the run yields
Yield(i) == expand_single_playlist(playlist_urls[i], per_playlist_limit)

Supplies(i, u) == ~Yield(i).raised /\ u \in Range(Yield(i).urls)

InPlaylist(u) == \E i \in 1..Len(playlist_urls) : Supplies(i, u)

FirstPlaylistTitle(u) ==
  Yield(CHOOSE i \in 1..Len(playlist_urls) :
          Supplies(i, u) /\ \A j \in 1..(i - 1) : ~Supplies(j, u)).title

Direct(u) == u \in Range(urls_from_text \o urls_from_file)

\* The group of a link, <<>> for none. As stated: the source that names the
\* link first decides, and the direct list is read first.
GroupFirstSource(u) ==
  IF Direct(u) \/ ~InPlaylist(u) THEN <<>> ELSE FirstPlaylistTitle(u)

\* Amended: the first playlist that supplies the link decides.
GroupFirstPlaylist(u) ==
  IF InPlaylist(u) THEN FirstPlaylistTitle(u) ELSE <<>>

\* The paths of the ok outcomes so far whose link has group g, in fetch order.
OkPathsOf(G(_), g) ==
  LET ok == SelectSeq(results, LAMBDA r : IsOk(r) /\ G(r.url) = g)
  IN  [i \in 1..Len(ok) |-> ok[i].path]

\* The run's lists of paths follow the grouping G.
GroupedBy(G(_)) ==
  /\ ungrouped_paths = OkPathsOf(G, <<>>)
  /\ \A k \in 1..Len(grouped_paths) :
        grouped_paths[k][2] = OkPathsOf(G, grouped_paths[k][1])
  /\ \A i \in 1..Len(results) :
        (IsOk(results[i]) /\ G(results[i].url) # <<>>)
          => DictHas(grouped_paths, G(results[i].url))

\* C2 (as stated): the successful output of a link supplied both directly and
\* by playlists is sorted by the source that claimed the link first in merge
\* order: ungrouped when the direct list did, else under the title of the first
\* playlist containing it.
C2_FirstSourceWins == InRun => GroupedBy(GroupFirstSource)

\* C2 (amended): the successful output of every link a playlist supplied is
\* sorted under the title of the first playlist that supplied it, whether or
\* not the direct list names the link too; it is ungrouped only when no
\* playlist supplied the link.
C2_FirstPlaylistWins == InRun => GroupedBy(GroupFirstPlaylist)

\* A link pasted directly and supplied by a playlist was fetched with success:
\* its file is in that playlist's group and not among the ungrouped.
C2_Witness ==
  /\ InRun
  /\ \E i \in 1..Len(results) :
       LET u == results[i].url
       IN  /\ IsOk(results[i])
           /\ Direct(u) /\ InPlaylist(u)
           /\ DictHas(grouped_paths, FirstPlaylistTitle(u))
           /\ results[i].path \in Range(DictGet(grouped_paths, FirstPlaylistTitle(u)))
           /\ results[i].path \notin Range(ungrouped_paths)

(***************************************************************************)
(* C3                                                                      *)
(***************************************************************************)
\* C3: after a run in which no link obtained an ok outcome (the loop ended with
\* no success, a worker call ended the run before any success, or the run
\* ended before the first worker call) no archive state is stored and no
\* download is offered.
C3_NoOkRunClears ==
  (pc = "idle" /\ run_end \in {"no_results", "crashed", "no_folder"} /\ ok_paths = <<>>)
    => (zip_state = NoZipState /\ offered = {})

(***************************************************************************)
(* C4                                                                      *)
(***************************************************************************)
\* C4: in combined mode, after a run with an ok outcome and no failed one, the
\* archive's entries are exactly the base names of the files of the ok outcomes,
\* none twice.
C4_CombinedArchive ==
  ( /\ RunOver /\ run_end = "results_ready"
    /\ zip_state.present /\ zip_state.mode = "gabungan" /\ zip_state.has_combined
    /\ \A i \in 1..Len(results) : IsOk(results[i]) )
  => LET entries == zip_state.combined_bytes
     IN  /\ Range(entries) = {basename(results[i].path) : i \in 1..Len(results)}
         /\ \A i, j \in 1..Len(entries) : i # j => entries[i] # entries[j]

(***************************************************************************)
(* C5                                                                      *)
(***************************************************************************)
\* The target base name download_one computes for a link
TargetOf(url) ==
  LET info == Catalog(url)
  IN  target_base_of(IF info.entries # <<>> THEN info.entries[1] ELSE info)

\* C5: two files fetched in one run with the same target base name are stored
\* under different names, and both exist afterwards.
C5_BothKept ==
  InRun =>
    \A i, j \in 1..Len(results) :
      ( /\ i < j /\ IsOk(results[i]) /\ IsOk(results[j])
        /\ TargetOf(results[i].url) = TargetOf(results[j].url) )
      => /\ results[i].path # results[j].path
         /\ exists(disk, results[i].path)
         /\ exists(disk, results[j].path)

(***************************************************************************)
(* C6                                                                      *)
(***************************************************************************)
\* The buttons of every bundle the stored state holds
AllBundles(zs) == Buttons([zs EXCEPT !.cleaned = FALSE])

\* C6: once the working directory was cleaned, every bundle of that run is
\* still offered for download by every later script run, until a new run starts.
C6_StillDownloadable ==
  (pc = "idle" /\ zip_state.present /\ zip_state.cleaned)
    => offered = AllBundles(zip_state)

(***************************************************************************)
(* C12                                                                     *)
(***************************************************************************)
\* The fetch loop has handled every link of the run.
LoopOver == InRun /\ Len(results) = Len(all_video_urls)

\* The paths of the ok outcomes are pairwise distinct and each is on disk.
OkPathsDistinctAndPresent ==
  /\ \A i, j \in 1..Len(results) :
        (i < j /\ IsOk(results[i]) /\ IsOk(results[j]))
          => results[i].path # results[j].path
  /\ \A i \in 1..Len(results) : IsOk(results[i]) => exists(disk, results[i].path)

\* C12: within a run no later worker call renames, moves or selects as its own
\* output the file of an earlier ok outcome: at the end of the fetch loop the
\* paths of the ok outcomes are pairwise distinct and each exists in the working
\* directory, also when the worker fell back to scanning the directory.
C12_EarlierFilesKept == LoopOver => OkPathsDistinctAndPresent

(***************************************************************************)
(* C11                                                                     *)
(***************************************************************************)
\* The run stored what it stores in per-playlist mode when every archive build
\* succeeds.
AllBundlesBuilt ==
  /\ RunOver /\ run_end = "results_ready"
  /\ zip_state = BuildZipState(MODE_PER_PLAYLIST, disk, TRUE, {}, FALSE)

\* The groups (playlist titles) with an ok outcome, and whether an ok outcome is
\* ungrouped.
OkGroups ==
  {GroupFirstPlaylist(results[i].url) : i \in {k \in 1..Len(results) : IsOk(results[k])}}
    \ {<<>>}

UngroupedOk ==
  \E i \in 1..Len(results) : IsOk(results[i]) /\ GroupFirstPlaylist(results[i].url) = <<>>

\* The stored bundles whose archive has an entry for the path p.
BundlesWith(p) ==
  {k \in 1..Len(zip_state.group_zips) :
     basename(p) \in Range(zip_state.group_zips[k][2].bytes)}

\* C11: in per-playlist mode, when every archive build succeeds (and the ok
\* outcomes name distinct existing files), there is one stored bundle per group
\* with an ok outcome plus one for the ungrouped ok outcomes if any, and the
\* file of every ok outcome is packaged in exactly one stored bundle, whatever
\* the playlists are titled.
C11_OneBundlePerGroup ==
  (AllBundlesBuilt /\ OkPathsDistinctAndPresent)
  => /\ Len(zip_state.group_zips)
          = Cardinality(OkGroups) + (IF UngroupedOk THEN 1 ELSE 0)
     /\ \A i \in 1..Len(results) :
           IsOk(results[i]) => Cardinality(BundlesWith(results[i].path)) = 1

====
